---- MODULE Spec2Model ----
(***************************************************************************)
(* A model of the Delta-skin to RetroArch-overlay converter                *)
(* (src/convert.py, src/input_mapping.py).                                 *)
(*                                                                         *)
(* JSON values are modelled by tagged records so that Python's "key is     *)
(* absent", "value is falsy" and "value is usable" stay distinct:          *)
(*   frame     [tag, x, y, width, height]  tag: "absent" (no such key),    *)
(*             "empty" (key present, value {} or null), "rect"             *)
(*   inputs    [tag, list, dict]  tag: "absent" (no key, null, [] or {}),  *)
(*             "list", "dict" (an insertion-ordered sequence of            *)
(*             <<key, value>> pairs), "other" (a truthy scalar)            *)
(* A generated config is a sequence of line records                        *)
(*   [k, ov, idx, name, shape, geo, n]                                     *)
(* one per text line: k is the line's kind, ov the overlay index, idx the  *)
(* descriptor index, geo the four printed numbers and n a printed number.  *)
(* Numbers printed with six decimals are held in millionths, numbers       *)
(* printed with two decimals in hundredths.                                *)
(***************************************************************************)
EXTENDS Integers, Sequences, FiniteSets, TLC

VARIABLES
    pc,         \* position of the running code
    env,        \* the command line, the packages on disk, the rasterizer
    pi,         \* main: position in args.deltaskin
    di,         \* convert_deltaskin: position in devices
    oi,         \* convert_deltaskin: position in orientations (image loop)
    fs,         \* the files written below the output directory
    log,        \* what was printed, in order
    call,       \* arguments of the last call of the function under study
    ret         \* the lines that call returned

vars == <<pc, env, pi, di, oi, fs, log, call, ret>>

-----------------------------------------------------------------------------
(* Bounds of the explored inputs *)

MaxCoord == 2      \* item frames have x in 0..MaxCoord
MaxItems == 2      \* an orientation has at most MaxItems items
MaxOrients == 2    \* generate_overlay_config is handed at most MaxOrients orientations
MaxScreens == 2    \* an orientation has at most MaxScreens screens
MaxPaths == 2      \* the command line names at most MaxPaths packages

-----------------------------------------------------------------------------
(* JSON values *)

NoneVal == "<None>"

Truthy(s) == s /= "" /\ s /= NoneVal

Rect(x, y, w, h) == [tag |-> "rect", x |-> x, y |-> y, width |-> w, height |-> h]
AbsentFrame == [tag |-> "absent", x |-> 0, y |-> 0, width |-> 0, height |-> 0]
EmptyFrame == [tag |-> "empty", x |-> 0, y |-> 0, width |-> 0, height |-> 0]

FrameTruthy(f) == f.tag = "rect"

StrVal(s) == [isStr |-> TRUE, s |-> s]
NonStrVal == [isStr |-> FALSE, s |-> ""]

InputsAbsent == [tag |-> "absent", list |-> <<>>, dict |-> <<>>]
InputsList(l) == [tag |-> "list", list |-> l, dict |-> <<>>]
InputsDict(d) == [tag |-> "dict", list |-> <<>>, dict |-> d]
InputsOther == [tag |-> "other", list |-> <<>>, dict |-> <<>>]

NoEdges == [top |-> 0, bottom |-> 0, left |-> 0, right |-> 0]

DictKeys(d) == {d[i][1] : i \in DOMAIN d}
DictValues(d) == {d[i][2] : i \in DOMAIN d}

-----------------------------------------------------------------------------
(* src/input_mapping.py *)

DELTA_TO_RETROARCH(b) ==
    CASE b = "menu" -> "menu_toggle"
      [] b = "z" -> "l2"
      [] b = "cUp" -> "r_y_minus"
      [] b = "cDown" -> "r_y_plus"
      [] b = "cLeft" -> "r_x_minus"
      [] b = "cRight" -> "r_x_plus"
      [] b = "analogStickUp" -> "l_y_minus"
      [] b = "analogStickDown" -> "l_y_plus"
      [] b = "analogStickLeft" -> "l_x_minus"
      [] b = "analogStickRight" -> "l_x_plus"
      [] b \in {"touchScreenX", "touchScreenY"} -> NoneVal
      [] OTHER -> b      \* the identity entries, and .get's default

-----------------------------------------------------------------------------
(* Printed numbers *)

\* f"{num/den:.6f}" in millionths
Fmt6(num, den) == (2 * 1000000 * num + den) \div (2 * den)

\* f"{num/den:.2f}" in hundredths
Fmt2(num, den) == (2 * 100 * num + den) \div (2 * den)

Line(k, ov, idx, name, shape, geo, n) ==
    [k |-> k, ov |-> ov, idx |-> idx, name |-> name, shape |-> shape,
     geo |-> geo, n |-> n]

NoGeo == <<0, 0, 0, 0>>

-----------------------------------------------------------------------------
(* Geometry *)

\* normalize_frame: center and half-size, each as printed
normalize_frame(frame, mapping_size) ==
    <<Fmt6(2 * frame.x + frame.width, 2 * mapping_size.width),
      Fmt6(2 * frame.y + frame.height, 2 * mapping_size.height),
      Fmt6(frame.width, 2 * mapping_size.width),
      Fmt6(frame.height, 2 * mapping_size.height)>>

-----------------------------------------------------------------------------
(* Descriptor classification *)

AnalogValues == {"analogStickUp", "analogStickDown", "analogStickLeft", "analogStickRight"}

\* a d-pad test that accepts any one direction key
is_dpad_any(inputs) ==
    /\ inputs.tag = "dict"
    /\ \E k \in {"up", "down", "left", "right"} : k \in DictKeys(inputs.dict)

is_dpad(inputs) ==
    /\ inputs.tag = "dict"
    /\ \A k \in {"up", "down", "left", "right"} : k \in DictKeys(inputs.dict)

is_analog_stick(inputs) ==
    /\ inputs.tag = "dict"
    /\ \E v \in DictValues(inputs.dict) : v.isStr /\ v.s \in AnalogValues

\* the classification with the d-pad test ahead of the analog-stick test
MainLines_dpad_first(item, mapping_size, index, overlay_index) ==
    LET geo == normalize_frame(item.frame, mapping_size)
        inputs == item.inputs
    IN  IF inputs.tag = "list"
        THEN LET ra_input == DELTA_TO_RETROARCH(inputs.list[1])
             IN  IF Truthy(ra_input)
                 THEN <<Line("desc", overlay_index, index, ra_input, "radial", geo, 0)>>
                 ELSE <<>>
        ELSE IF inputs.tag = "dict"
        THEN IF is_dpad(inputs)
             THEN <<Line("desc", overlay_index, index, "dpad_area", "rect", geo, 0)>>
             ELSE IF is_analog_stick(inputs)
             THEN <<Line("desc", overlay_index, index, "analog_left", "radial", geo, 0)>>
             ELSE <<>>
        ELSE <<>>

\* the main descriptor line of an item: lines 143-155
MainLines(item, mapping_size, index, overlay_index) ==
    LET geo == normalize_frame(item.frame, mapping_size)
        inputs == item.inputs
    IN  IF inputs.tag = "list"
        THEN LET ra_input == DELTA_TO_RETROARCH(inputs.list[1])
             IN  IF Truthy(ra_input)
                 THEN <<Line("desc", overlay_index, index, ra_input, "radial", geo, 0)>>
                 ELSE <<>>
        ELSE IF inputs.tag = "dict"
        THEN IF is_analog_stick(inputs)
             THEN <<Line("desc", overlay_index, index, "analog_left", "radial", geo, 0)>>
             ELSE IF is_dpad(inputs)
             THEN <<Line("desc", overlay_index, index, "dpad_area", "rect", geo, 0)>>
             ELSE <<>>
        ELSE <<>>

ReachLine(ext, dim, edge, index, overlay_index) ==
    IF ext /= 0
    THEN <<Line("reach", overlay_index, index, edge, "", NoGeo, Fmt2(dim + 2 * ext, dim))>>
    ELSE <<>>

\* the extended edges of an item: lines 157-167
ReachLines(item, index, overlay_index) ==
    LET extended == item.extendedEdges
        frame == item.frame
    IN  ReachLine(extended.top, frame.height, "up", index, overlay_index)
        \o ReachLine(extended.bottom, frame.height, "down", index, overlay_index)
        \o ReachLine(extended.left, frame.width, "left", index, overlay_index)
        \o ReachLine(extended.right, frame.width, "right", index, overlay_index)

convert_item_to_descriptor(item, mapping_size, index, overlay_index) ==
    IF ~FrameTruthy(item.frame) \/ item.inputs.tag = "absent"
    THEN <<>>
    ELSE MainLines(item, mapping_size, index, overlay_index)
         \o ReachLines(item, index, overlay_index)

-----------------------------------------------------------------------------
(* Overlay config generation *)

\* Orientation data: present is Python's truthiness of portrait_data /
\* landscape_data; screens is data.get('screens', []) (<<>> also stands for
\* a missing or null key, which the code treats alike).
AbsentData ==
    [present |-> FALSE, mappingSize |-> [width |-> 1, height |-> 1],
     items |-> <<>>, screens |-> <<>>, gameScreenFrame |-> AbsentFrame,
     assets |-> [resizable |-> "", small |-> "", medium |-> "", large |-> ""]]

Screen(o, i) == [outputFrame |-> o, inputFrame |-> i]

\* "if s": a screen that is the empty object is dropped
ScreenTruthy(s) == s.outputFrame.tag /= "absent" \/ s.inputFrame.tag /= "absent"

\* s.get('outputFrame', s.get('inputFrame', {}))
ScreenFrame(s) ==
    IF s.outputFrame.tag /= "absent" THEN s.outputFrame
    ELSE IF s.inputFrame.tag /= "absent" THEN s.inputFrame
    ELSE EmptyFrame

Min(S) == CHOOSE m \in S : \A n \in S : m <= n
Max(S) == CHOOSE m \in S : \A n \in S : m >= n

\* compute_bounding_box of a non-empty sequence of rectangles
compute_bounding_box(frames) ==
    LET min_x == Min({frames[i].x : i \in DOMAIN frames})
        min_y == Min({frames[i].y : i \in DOMAIN frames})
        max_x == Max({frames[i].x + frames[i].width : i \in DOMAIN frames})
        max_y == Max({frames[i].y + frames[i].height : i \in DOMAIN frames})
    IN  Rect(min_x, min_y, max_x - min_x, max_y - min_y)

\* lines 196-202: the screens, or the gameScreenFrame wrapped as one screen
ScreenFrames(data) ==
    IF data.screens /= <<>> THEN data.screens
    ELSE IF FrameTruthy(data.gameScreenFrame)
         THEN <<Screen(data.gameScreenFrame, AbsentFrame)>>
         ELSE <<>>

\* lines 206-207: one frame per truthy screen, the empty ones filtered out
UsableFrames(screen_frames) ==
    LET kept == SelectSeq(screen_frames, ScreenTruthy)
        got == [i \in DOMAIN kept |-> ScreenFrame(kept[i])]
    IN  SelectSeq(got, FrameTruthy)

\* lines 204-213: the viewport rectangle in pixels; a frame that is not
\* truthy stands for "no viewport"
Viewport(data) ==
    LET frames == UsableFrames(ScreenFrames(data))
    IN  IF frames /= <<>> THEN compute_bounding_box(frames)
        ELSE data.gameScreenFrame

ViewportLines(data, overlay_index) ==
    LET viewport == Viewport(data)
        mapping_size == data.mappingSize
    IN  IF FrameTruthy(viewport)
        THEN <<Line("viewport", overlay_index, 0, "", "",
                    <<Fmt6(viewport.x, mapping_size.width),
                      Fmt6(viewport.y, mapping_size.height),
                      Fmt6(viewport.width, mapping_size.width),
                      Fmt6(viewport.height, mapping_size.height)>>, 0)>>
        ELSE <<>>

RECURSIVE ItemLines(_, _, _, _)
RECURSIVE ItemLines_renumbered(_, _, _, _)
\* the item loop numbering only the items that emitted something
ItemLines_renumbered(items, mapping_size, i, overlay_index) ==
    IF i > Len(items) THEN <<>>
    ELSE convert_item_to_descriptor(
             items[i], mapping_size,
             Cardinality({j \in 1..(i - 1) :
                 convert_item_to_descriptor(items[j], mapping_size, 0, 0) /= <<>>}),
             overlay_index)
         \o ItemLines_renumbered(items, mapping_size, i + 1, overlay_index)

\* lines 233-235: the descriptors of items[i..], each under its source position
\* (enumerate counts from 0)
ItemLines(items, mapping_size, i, overlay_index) ==
    IF i > Len(items) THEN <<>>
    ELSE convert_item_to_descriptor(items[i], mapping_size, i - 1, overlay_index)
         \o ItemLines(items, mapping_size, i + 1, overlay_index)

\* the rotation button added to a lone overlay as well
RotateLines_always(orientation, items, overlay_index, num_overlays) ==
    LET other_orientation == IF orientation = "portrait" THEN "landscape" ELSE "portrait"
        rotate_idx == Len(items)
    IN  <<Line("desc", overlay_index, rotate_idx, "overlay_next", "radial",
               IF orientation = "portrait"
               THEN <<500000, 20000, 40000, 20000>>
               ELSE <<500000, 40000, 20000, 40000>>, 0),
          Line("next_target", overlay_index, rotate_idx, other_orientation, "", NoGeo, 0)>>

\* lines 237-249: the invisible rotation button
RotateLines(orientation, items, overlay_index, num_overlays) ==
    LET other_orientation == IF orientation = "portrait" THEN "landscape" ELSE "portrait"
        rotate_idx == Len(items)
    IN  IF num_overlays > 1
        THEN <<Line("desc", overlay_index, rotate_idx, "overlay_next", "radial",
                    IF orientation = "portrait"
                    THEN <<500000, 20000, 40000, 20000>>
                    ELSE <<500000, 40000, 20000, 40000>>, 0),
               Line("next_target", overlay_index, rotate_idx, other_orientation, "", NoGeo, 0)>>
        ELSE <<>>

NumDescs(items, num_overlays) ==
    IF num_overlays > 1 THEN Len(items) + 1 ELSE Len(items)

Blank == Line("blank", 0, 0, "", "", NoGeo, 0)

\* lines 193-254: the block of one orientation whose data is present
OverlayBlock(orientation, data, overlay_index, num_overlays) ==
    LET mapping_size == data.mappingSize
        items == data.items
        aspect_ratio == IF orientation = "portrait"
                        THEN Fmt6(mapping_size.height, mapping_size.width)
                        ELSE Fmt6(mapping_size.width, mapping_size.height)
        img_name == IF orientation = "portrait" THEN "portrait.png" ELSE "landscape.png"
    IN  <<Line("name", overlay_index, 0, orientation, "", NoGeo, 0),
          Line("overlay", overlay_index, 0, img_name, "", NoGeo, 0),
          Line("full_screen", overlay_index, 0, "true", "", NoGeo, 0),
          Line("normalized", overlay_index, 0, "true", "", NoGeo, 0),
          Line("aspect_ratio", overlay_index, 0, "", "", NoGeo, aspect_ratio)>>
        \o ViewportLines(data, overlay_index)
        \o <<Blank>>
        \o <<Line("descs", overlay_index, 0, "", "", NoGeo, NumDescs(items, num_overlays)), Blank>>
        \o ItemLines(items, mapping_size, 1, overlay_index)
        \o RotateLines(orientation, items, overlay_index, num_overlays)
        \o <<Blank>>

\* line 175
NumOverlays(orientations) == Len(orientations)

RECURSIVE OverlayLoop(_, _, _, _, _, _)
\* lines 181-256: the loop over orientations[i..]
OverlayLoop(orientations, i, overlay_index, num_overlays, portrait_data, landscape_data) ==
    IF i > Len(orientations) THEN <<>>
    ELSE LET orientation == orientations[i]
         IN  IF orientation = "portrait" /\ portrait_data.present
             THEN OverlayBlock(orientation, portrait_data, overlay_index, num_overlays)
                  \o OverlayLoop(orientations, i + 1, overlay_index + 1, num_overlays,
                                 portrait_data, landscape_data)
             ELSE IF orientation = "landscape" /\ landscape_data.present
             THEN OverlayBlock(orientation, landscape_data, overlay_index, num_overlays)
                  \o OverlayLoop(orientations, i + 1, overlay_index + 1, num_overlays,
                                 portrait_data, landscape_data)
             ELSE OverlayLoop(orientations, i + 1, overlay_index, num_overlays,
                              portrait_data, landscape_data)

generate_overlay_config(orientations, portrait_data, landscape_data) ==
    LET num_overlays == NumOverlays(orientations)
    IN  <<Line("overlays", 0, 0, "", "", NoGeo, num_overlays), Blank>>
        \o OverlayLoop(orientations, 1, 0, num_overlays, portrait_data, landscape_data)

-----------------------------------------------------------------------------
(* Conversion driver: helpers of convert_deltaskin *)

\* A JSON object whose key order matters is a sequence of <<key, value>> pairs.
Keys(d) == [i \in DOMAIN d |-> d[i][1]]
HasKey(d, k) == \E i \in DOMAIN d : d[i][1] = k
Get(d, k) == d[CHOOSE i \in DOMAIN d : d[i][1] = k][2]

RECURSIVE FirstOf(_, _, _)
\* the first of prefs[i..] that is a key of d, else the first key of d, else None
FirstOf(prefs, i, d) ==
    IF i > Len(prefs)
    THEN IF d /= <<>> THEN d[1][1] ELSE NoneVal
    ELSE IF HasKey(d, prefs[i]) THEN prefs[i] ELSE FirstOf(prefs, i + 1, d)

get_display_type_preference(device_data) ==
    FirstOf(<<"edgeToEdge", "standard", "splitView">>, 1, device_data)

\* lines 292-299: the orientations of a device that has data
AvailableOrientations(type_data) ==
    (IF type_data.portrait.present THEN <<"portrait">> ELSE <<>>)
    \o (IF type_data.landscape.present THEN <<"landscape">> ELSE <<>>)

\* line 319: the first asset name that is set
AssetName(assets) ==
    IF assets.resizable /= "" THEN assets.resizable
    ELSE IF assets.small /= "" THEN assets.small
    ELSE IF assets.medium /= "" THEN assets.medium
    ELSE assets.large

PdfNames == {"skin.pdf", "land.pdf", "gone.pdf"}   \* names for which endswith('.pdf')
PngNames == {"skin.png"}                           \* names for which endswith('.png')

-----------------------------------------------------------------------------
(* Bounded input sets *)

SeqsUpTo(S, n) == UNION {[1..m -> S] : m \in 0..n}

MappingSizeP == [width |-> 4, height |-> 8]
MappingSizeL == [width |-> 8, height |-> 4]

Item(f, i, e) == [frame |-> f, inputs |-> i, extendedEdges |-> e]

ItemFrames ==
    {AbsentFrame, EmptyFrame}
    \cup {Rect(x, 1, w, 2) : x \in 0..MaxCoord, w \in 1..2}

Buttons == {"a", "menu", "touchScreenX", "thumbstick"}

DictKeyOrder == <<"up", "down", "left", "right", "a">>

\* a JSON object over the keys picked by ks (in DictKeyOrder), the value of
\* key k chosen by vs: the key's own name, an analog marker, or a non-string
DictOf(ks, vs) ==
    LET picked == SelectSeq(DictKeyOrder, LAMBDA k : k \in ks)
    IN  [i \in DOMAIN picked |->
            <<picked[i],
              CASE vs[picked[i]] = "plain" -> StrVal(picked[i])
                [] vs[picked[i]] = "analog" -> StrVal("analogStickUp")
                [] OTHER -> NonStrVal>>]

DictKeySets == SUBSET {"up", "down", "left", "right", "a"} \ {{}}

ItemDicts ==
    {DictOf(ks, vs) : ks \in DictKeySets, vs \in [{"up", "down", "left", "right", "a"} -> {"plain"}]}
    \cup UNION {{DictOf(ks, [k \in {"up", "down", "left", "right", "a"} |->
                                IF k = special THEN kind ELSE "plain"]) :
                     special \in ks, kind \in {"analog", "nonstr"}} : ks \in DictKeySets}

ItemInputs ==
    {InputsAbsent, InputsOther}
    \cup {InputsList(l) : l \in SeqsUpTo(Buttons, 2) \ {<<>>}}
    \cup {InputsDict(d) : d \in ItemDicts}

ItemEdges ==
    {NoEdges,
     [top |-> 1, bottom |-> 0, left |-> 0, right |-> 0],
     [top |-> 0, bottom |-> 2, left |-> 0, right |-> 0],
     [top |-> 0, bottom |-> 0, left |-> 1, right |-> 0],
     [top |-> 0, bottom |-> 0, left |-> 0, right |-> 3],
     [top |-> 1, bottom |-> 1, left |-> 1, right |-> 1]}

ItemCalls ==
    {[fn |-> "convert_item_to_descriptor", item |-> Item(f, i, e),
      mapping_size |-> MappingSizeP, index |-> n, overlay_index |-> n] :
        f \in ItemFrames, i \in ItemInputs, e \in ItemEdges, n \in 0..1}

NoAssets == [resizable |-> "", small |-> "", medium |-> "", large |-> ""]

Data(ms, items, screens, gsf, assets) ==
    [present |-> TRUE, mappingSize |-> ms, items |-> items, screens |-> screens,
     gameScreenFrame |-> gsf, assets |-> assets]

DpadDict ==
    <<<<"up", StrVal("up")>>, <<"down", StrVal("down")>>,
      <<"left", StrVal("left")>>, <<"right", StrVal("right")>>>>

AllEdges == [top |-> 1, bottom |-> 1, left |-> 1, right |-> 1]

ButtonItem == Item(Rect(0, 1, 1, 2), InputsList(<<"a">>), NoEdges)

\* a button, a touch-screen axis with a reach, a d-pad with four reaches, an
\* item without a frame, an unrecognized mapping
GenItems ==
    {ButtonItem,
     Item(Rect(1, 1, 2, 2), InputsList(<<"touchScreenX", "touchScreenY">>),
          [top |-> 1, bottom |-> 0, left |-> 0, right |-> 0]),
     Item(Rect(2, 1, 2, 2), InputsDict(DpadDict), AllEdges),
     Item(AbsentFrame, InputsList(<<"b">>), NoEdges),
     Item(Rect(2, 1, 1, 2), InputsDict(<<<<"a", StrVal("a")>>>>), NoEdges)}

OrientationNames == {"portrait", "landscape"}

ScreenFrameValues == {AbsentFrame, EmptyFrame, Rect(1, 2, 2, 3), Rect(0, 4, 3, 2)}

Screens == {Screen(o, i) : o \in ScreenFrameValues, i \in ScreenFrameValues}

GsfValues == {AbsentFrame, EmptyFrame, Rect(0, 0, 4, 3)}

\* calls that vary the requested orientations, their presence and the items
GenCalls ==
    {[fn |-> "generate_overlay_config", orientations |-> os,
      portrait_data |-> p, landscape_data |-> l] :
        os \in SeqsUpTo(OrientationNames, MaxOrients),
        p \in {AbsentData}
              \cup {Data(MappingSizeP, its, <<>>, g, NoAssets) :
                        its \in SeqsUpTo(GenItems, MaxItems),
                        g \in {AbsentFrame, Rect(0, 0, 4, 3)}},
        l \in {AbsentData}
              \cup {Data(MappingSizeL, its, <<>>, AbsentFrame, NoAssets) :
                        its \in {<<>>, <<ButtonItem>>}}}

\* calls that vary the screens and the gameScreenFrame of one orientation
ViewportCalls ==
    {[fn |-> "generate_overlay_config", orientations |-> <<o>>,
      portrait_data |-> IF o = "portrait" THEN d ELSE AbsentData,
      landscape_data |-> IF o = "landscape" THEN d ELSE AbsentData] :
        o \in OrientationNames,
        d \in {Data(MappingSizeP, <<>>, ss, g, NoAssets) :
                  ss \in SeqsUpTo(Screens, MaxScreens), g \in GsfValues}}

\* the orientation data the driver is run on: a PDF asset with a
\* gameScreenFrame, a PNG asset without any screen data, an asset that the
\* package does not hold with one screen
DriverData(ms) ==
    {Data(ms, <<ButtonItem>>, <<>>, Rect(0, 0, 4, 3),
          [resizable |-> "skin.pdf", small |-> "skin.png", medium |-> "", large |-> ""]),
     Data(ms, <<>>, <<>>, AbsentFrame,
          [resizable |-> "", small |-> "skin.png", medium |-> "", large |-> ""]),
     Data(ms, <<ButtonItem>>, <<Screen(AbsentFrame, Rect(1, 2, 2, 3))>>, AbsentFrame,
          [resizable |-> "", small |-> "", medium |-> "", large |-> "gone.pdf"])}

TypeData(p, l) == [portrait |-> p, landscape |-> l]

PdfPortrait == CHOOSE d \in DriverData(MappingSizeP) : d.assets.resizable = "skin.pdf"
PngPortrait ==
    CHOOSE d \in DriverData(MappingSizeP) : d.assets.resizable = "" /\ d.assets.small /= ""
PdfLandscape ==
    Data(MappingSizeL, <<ButtonItem>>, <<>>, AbsentFrame,
         [resizable |-> "", small |-> "", medium |-> "land.pdf", large |-> "skin.png"])
PngLandscape ==
    CHOOSE d \in DriverData(MappingSizeL) : d.assets.resizable = "" /\ d.assets.small /= ""

TypeDatas ==
    {TypeData(p, l) : p \in {AbsentData} \cup DriverData(MappingSizeP),
                      l \in {AbsentData, PdfLandscape, PngLandscape}}

\* device data: no display type; one standard display type; a preferred
\* display type listed after another one; only an unknown display type
DeviceDatas ==
    {<<>>}
    \cup {<<<<"standard", td>>>> : td \in TypeDatas}
    \cup {<<<<"splitView", TypeData(PdfPortrait, AbsentData)>>, <<"edgeToEdge", td>>>> :
             td \in {TypeData(AbsentData, AbsentData), TypeData(PngPortrait, PdfLandscape)}}
    \cup {<<<<"custom", TypeData(PngPortrait, AbsentData)>>>>}

SecondDeviceDatas ==
    {<<<<"standard", TypeData(AbsentData, AbsentData)>>>>,
     <<<<"standard", TypeData(PngPortrait, PdfLandscape)>>>>}

\* info.json of skin.deltaskin: an iphone representation, and maybe an ipad one
Representations ==
    {<<<<"iphone", d>>>> : d \in DeviceDatas}
    \cup {<<<<"iphone", d>>, <<"ipad", e>>>> : d \in DeviceDatas, e \in SecondDeviceDatas}

PackageFiles == {"skin.pdf", "land.pdf", "skin.png"}

\* the rasterizer: pdf2image missing, or installed and, for the bytes of each
\* PDF of the package, returning a page, raising, or returning no page
Rasterizers ==
    {[installed |-> FALSE, outcome |-> [f \in {"skin.pdf", "land.pdf"} |-> "raises"]]}
    \cup {[installed |-> TRUE, outcome |-> o] :
             o \in {[f \in {"skin.pdf", "land.pdf"} |->
                        IF f = "skin.pdf" THEN a ELSE b] :
                    a \in {"page", "raises", "empty"}, b \in {"page", "raises"}}}

PathNames == {"missing.deltaskin", "corrupt.deltaskin", "skin.deltaskin"}

\* --devices: not given, or a list with a device no skin has
DeviceArgs ==
    {[given |-> FALSE, list |-> <<>>],
     [given |-> TRUE, list |-> <<"ipad", "tv", "iphone">>]}

\* the skins main's loop is studied on: a device without display types; a
\* device with a PDF and a PNG beside a device without orientations; a device
\* whose portrait asset is not in the package
MainRepresentations ==
    {<<<<"iphone", <<>>>>>>,
     <<<<"iphone", <<<<"standard", TypeData(PdfPortrait, PngLandscape)>>>>>>,
       <<"ipad", <<<<"standard", TypeData(AbsentData, AbsentData)>>>>>>>>,
     <<<<"iphone", <<<<"standard",
          TypeData(CHOOSE d \in DriverData(MappingSizeP) : d.assets.large = "gone.pdf",
                   PdfLandscape)>>>>>>>>}

EnvsMain ==
    {[paths |-> ps, devices |-> da, rasterizer |-> r,
      representations |-> reps, files |-> PackageFiles] :
        ps \in SeqsUpTo(PathNames, MaxPaths) \ {<<>>},
        da \in DeviceArgs, r \in Rasterizers, reps \in MainRepresentations}

Envs ==
    {[paths |-> ps, devices |-> da, rasterizer |-> r,
      representations |-> reps, files |-> PackageFiles] :
        ps \in SeqsUpTo(PathNames, MaxPaths) \ {<<>>},
        da \in DeviceArgs, r \in Rasterizers, reps \in Representations}

-----------------------------------------------------------------------------
(* The functions under study, called on their own *)

NoEnv == [paths |-> <<>>]

IdleDriver ==
    /\ env = NoEnv
    /\ pi = 0 /\ di = 0 /\ oi = 0
    /\ fs = {}
    /\ log = <<>>

InitItem ==
    /\ pc = "call"
    /\ call \in ItemCalls
    /\ ret = <<>>
    /\ IdleDriver

CallConvertItem ==
    /\ pc = "call"
    /\ call.fn = "convert_item_to_descriptor"
    /\ ret' = convert_item_to_descriptor(call.item, call.mapping_size, call.index,
                                          call.overlay_index)
    /\ pc' = "return"
    /\ UNCHANGED <<env, pi, di, oi, fs, log, call>>

NextItem == CallConvertItem

SpecItem == InitItem /\ [][NextItem]_vars

InitGen ==
    /\ pc = "call"
    /\ call \in GenCalls \cup ViewportCalls
    /\ ret = <<>>
    /\ IdleDriver

CallGenerateOverlayConfig ==
    /\ pc = "call"
    /\ call.fn = "generate_overlay_config"
    /\ ret' = generate_overlay_config(call.orientations, call.portrait_data,
                                       call.landscape_data)
    /\ pc' = "return"
    /\ UNCHANGED <<env, pi, di, oi, fs, log, call>>

NextGen == CallGenerateOverlayConfig

SpecGen == InitGen /\ [][NextGen]_vars

-----------------------------------------------------------------------------
(* Properties of convert_item_to_descriptor (SpecItem) *)

Directions == {"up", "down", "left", "right"}

IsDesc(l) == l.k = "desc"
IsReach(l) == l.k = "reach"

DescLines(lines) == SelectSeq(lines, IsDesc)

Returned(fn) == pc = "return" /\ call.fn = fn

\* the call was handed an item with a frame and a mapping for inputs
DictItemCall ==
    /\ Returned("convert_item_to_descriptor")
    /\ call.item.frame.tag = "rect"
    /\ call.item.inputs.tag = "dict"

HasAnalogValue(d) == \E i \in DOMAIN d : d[i][2].isStr /\ d[i][2].s \in AnalogValues

IsDpadLine(l) ==
    /\ l.k = "desc" /\ l.name = "dpad_area" /\ l.shape = "rect"
    /\ l.ov = call.overlay_index /\ l.idx = call.index

IsAnalogLine(l) ==
    /\ l.k = "desc" /\ l.name = "analog_left" /\ l.shape = "radial"
    /\ l.ov = call.overlay_index /\ l.idx = call.index

\* C4 as stated: for an item with a frame whose inputs is a mapping with no
\* analog marker among its values, the dpad_area rect descriptor is emitted
\* if and only if the key set is exactly {up, down, left, right}; any other
\* key set (a superset included) yields no main descriptor line.
C4_ExactKeys ==
    (DictItemCall /\ ~HasAnalogValue(call.item.inputs.dict)) =>
        IF DictKeys(call.item.inputs.dict) = Directions
        THEN Len(DescLines(ret)) = 1 /\ IsDpadLine(DescLines(ret)[1])
        ELSE DescLines(ret) = <<>>

\* C4 amended: for an item with a frame whose inputs is a mapping with no
\* analog marker among its values, the dpad_area rect descriptor is emitted
\* if and only if the key set contains all of up, down, left, right (extra
\* keys allowed); when one of the four is missing no main line is emitted.
C4_AllFourPresent ==
    (DictItemCall /\ ~HasAnalogValue(call.item.inputs.dict)) =>
        IF Directions \subseteq DictKeys(call.item.inputs.dict)
        THEN Len(DescLines(ret)) = 1 /\ IsDpadLine(DescLines(ret)[1])
        ELSE DescLines(ret) = <<>>

C4_Witness ==
    /\ DictItemCall
    /\ ~HasAnalogValue(call.item.inputs.dict)
    /\ DictKeys(call.item.inputs.dict) = Directions \cup {"a"}
    /\ \E i \in DOMAIN ret : IsDpadLine(ret[i])

\* C5: for an item with a frame whose inputs is a mapping holding the four
\* keys up, down, left, right, exactly one main descriptor line is emitted:
\* analog_left radial when some value is an analog marker, dpad_area rect
\* otherwise; never both.
C5_OneMainLine ==
    (DictItemCall /\ Directions \subseteq DictKeys(call.item.inputs.dict)) =>
        /\ Len(DescLines(ret)) = 1
        /\ IF HasAnalogValue(call.item.inputs.dict)
           THEN IsAnalogLine(DescLines(ret)[1])
           ELSE IsDpadLine(DescLines(ret)[1])

C5_Witness ==
    /\ DictItemCall
    /\ DictKeys(call.item.inputs.dict) = Directions
    /\ HasAnalogValue(call.item.inputs.dict)
    /\ Len(DescLines(ret)) = 1
    /\ IsAnalogLine(DescLines(ret)[1])

\* C10 as stated: every _reach_ line returned for an item comes with the
\* item's main descriptor line, so an item without a main descriptor
\* returns no lines at all.
C10_ReachHasDescriptor ==
    Returned("convert_item_to_descriptor") =>
        \A i \in DOMAIN ret :
            IsReach(ret[i]) =>
                \E j \in DOMAIN ret :
                    IsDesc(ret[j]) /\ ret[j].ov = ret[i].ov /\ ret[j].idx = ret[i].idx

-----------------------------------------------------------------------------
(* Properties of generate_overlay_config (SpecGen) *)

IsName(l) == l.k = "name"

NameLines(lines) == SelectSeq(lines, IsName)

\* the overlay indices that have a header in the config
BlockIndices(lines) == {lines[i].ov : i \in {j \in DOMAIN lines : IsName(lines[j])}}

\* the orientation named by the header of block b
BlockOrientation(lines, b) ==
    LET i == CHOOSE j \in DOMAIN lines : IsName(lines[j]) /\ lines[j].ov = b
    IN  lines[i].name

BlockDescLines(lines, b) == SelectSeq(lines, LAMBDA l : IsDesc(l) /\ l.ov = b)

BlockLinesOfKind(lines, b, k) == SelectSeq(lines, LAMBDA l : l.k = k /\ l.ov = b)

IsRotate(l) == IsDesc(l) /\ l.name = "overlay_next"

HasRotate(lines, b) == \E i \in DOMAIN lines : IsRotate(lines[i]) /\ lines[i].ov = b

CallData(orientation) ==
    IF orientation = "portrait" THEN call.portrait_data ELSE call.landscape_data

Requested(o) == \E i \in DOMAIN call.orientations : call.orientations[i] = o

\* C7 as stated: for every call, the overlays line equals the number of
\* overlay blocks emitted, one per orientation that is requested and present,
\* and the blocks are numbered 0 .. overlays-1 with portrait before landscape.
C7_OverlaysCountsBlocks ==
    Returned("generate_overlay_config") =>
        LET names == NameLines(ret)
        IN  /\ ret[1].k = "overlays"
            /\ ret[1].n = Len(names)
            /\ Len(names) = Cardinality({o \in OrientationNames :
                                Requested(o) /\ CallData(o).present})
            /\ \A i \in DOMAIN names : names[i].ov = i - 1
            /\ \A i, j \in DOMAIN names :
                  i < j => ~(names[i].name = "landscape" /\ names[j].name = "portrait")

\* C8: in every overlay block, _descs is the number of source items plus 1
\* if the rotate descriptor is present; a main descriptor line carries the
\* source position of its item and the rotate descriptor carries the number
\* of items; the indices of a block are pairwise distinct and lie in
\* 0 .. _descs-1 (gaps are left by skipped items).
C8_DescsAndIndices ==
    Returned("generate_overlay_config") =>
        \A b \in BlockIndices(ret) :
            LET data == CallData(BlockOrientation(ret, b))
                items == data.items
                descs == BlockLinesOfKind(ret, b, "descs")
                dl == BlockDescLines(ret, b)
            IN  /\ Len(descs) = 1
                /\ descs[1].n = Len(items) + (IF HasRotate(ret, b) THEN 1 ELSE 0)
                /\ \A i \in DOMAIN dl :
                      /\ 0 <= dl[i].idx /\ dl[i].idx < descs[1].n
                      /\ IF IsRotate(dl[i])
                         THEN dl[i].idx = Len(items)
                         ELSE /\ dl[i].idx < Len(items)
                              /\ <<dl[i]>> = MainLines(items[dl[i].idx + 1],
                                                       data.mappingSize, dl[i].idx, b)
                /\ \A i, j \in DOMAIN dl : i /= j => dl[i].idx /= dl[j].idx

\* a block whose first item was skipped and whose second item got index 1,
\* followed by the rotate descriptor at index 2 of 3
C8_Witness ==
    /\ Returned("generate_overlay_config")
    /\ \E b \in BlockIndices(ret) :
          LET dl == BlockDescLines(ret, b)
          IN  /\ Len(CallData(BlockOrientation(ret, b)).items) = 2
              /\ Len(dl) = 2
              /\ dl[1].idx = 1 /\ ~IsRotate(dl[1])
              /\ dl[2].idx = 2 /\ IsRotate(dl[2])
              /\ BlockLinesOfKind(ret, b, "descs")[1].n = 3

\* the rectangle a screen contributes by the claim: its outputFrame if that
\* is a usable rectangle, otherwise its inputFrame
ClaimScreenRects(data) ==
    {IF data.screens[i].outputFrame.tag = "rect"
     THEN data.screens[i].outputFrame
     ELSE data.screens[i].inputFrame : i \in DOMAIN data.screens}
    \ {AbsentFrame, EmptyFrame}

ClaimBoundingBox(R) ==
    LET x0 == Min({r.x : r \in R})
        y0 == Min({r.y : r \in R})
    IN  Rect(x0, y0, Max({r.x + r.width : r \in R}) - x0,
             Max({r.y + r.height : r \in R}) - y0)

ClaimViewport(data) ==
    IF ClaimScreenRects(data) /= {} THEN ClaimBoundingBox(ClaimScreenRects(data))
    ELSE data.gameScreenFrame

\* C9 as stated: the viewport of an orientation is the bounding box of one
\* rectangle per screen (outputFrame if usable, otherwise inputFrame), the
\* gameScreenFrame when no screen contributes one, and the _viewport line is
\* left out exactly when none of the three provides a rectangle.
C9_ViewportRule ==
    Returned("generate_overlay_config") =>
        \A b \in BlockIndices(ret) :
            LET data == CallData(BlockOrientation(ret, b))
                ms == data.mappingSize
                v == ClaimViewport(data)
                vl == BlockLinesOfKind(ret, b, "viewport")
            IN  IF v.tag = "rect"
                THEN /\ Len(vl) = 1
                     /\ vl[1].geo = <<Fmt6(v.x, ms.width), Fmt6(v.y, ms.height),
                                      Fmt6(v.width, ms.width), Fmt6(v.height, ms.height)>>
                ELSE vl = <<>>

-----------------------------------------------------------------------------
(* The program: main and convert_deltaskin *)

Event(ev, dev, o) == [ev |-> ev, p |-> pi, dev |-> dev, o |-> o]

\* os.path.exists
Exists(path) == path \in {"corrupt.deltaskin", "skin.deltaskin"}

\* parse_deltaskin raises on a package that is no archive
ParseRaises(path) == path = "corrupt.deltaskin"

\* lines 275-276
Devices == IF env.devices.given THEN env.devices.list ELSE Keys(env.representations)

Device == Devices[di]
DeviceData == Get(env.representations, Device)
DisplayType == get_display_type_preference(DeviceData)
CurTypeData == Get(DeviceData, DisplayType)
CurOrientations == AvailableOrientations(CurTypeData)
CurOrientation == CurOrientations[oi]
CurData == IF CurOrientation = "portrait" THEN CurTypeData.portrait ELSE CurTypeData.landscape

\* the files are known by directory (one per device) and name; the text of
\* the config last written is ret
File(dir, name) == [dir |-> dir, name |-> name]

Write(files, dir, name) == files \cup {File(dir, name)}

\* convert_pdf_to_png on the current asset: "page", "empty" or "raises"
Rasterize ==
    IF ~env.rasterizer.installed THEN "raises"
    ELSE env.rasterizer.outcome[AssetName(CurData.assets)]

\* the state when main enters its loop
Started ==
    /\ pc = "main"
    /\ pi = 1 /\ di = 0 /\ oi = 0
    /\ fs = {}
    /\ log = <<>>
    /\ call = [fn |-> "none"]
    /\ ret = <<>>

Init == env \in Envs /\ Started

InitMain == env \in EnvsMain /\ Started

\* lines 381-383
MainNotFound ==
    /\ pc = "main" /\ pi <= Len(env.paths)
    /\ ~Exists(env.paths[pi])
    /\ log' = Append(log, Event("file_not_found", "", ""))
    /\ pi' = pi + 1
    /\ UNCHANGED <<pc, env, di, oi, fs, call, ret>>

\* the exception of parse_deltaskin leaving main's loop
MainConvertRaises_uncaught ==
    /\ pc = "main" /\ pi <= Len(env.paths)
    /\ Exists(env.paths[pi]) /\ ParseRaises(env.paths[pi])
    /\ log' = log \o <<Event("converting", "", ""), Event("error_converting", "", "")>>
    /\ pc' = "done"
    /\ UNCHANGED <<env, pi, di, oi, fs, call, ret>>

\* lines 385-395 with 263-265: parse_deltaskin raises, main catches
MainConvertRaises ==
    /\ pc = "main" /\ pi <= Len(env.paths)
    /\ Exists(env.paths[pi]) /\ ParseRaises(env.paths[pi])
    /\ log' = log \o <<Event("converting", "", ""), Event("error_converting", "", "")>>
    /\ pi' = pi + 1
    /\ UNCHANGED <<pc, env, di, oi, fs, call, ret>>

\* lines 385-391 with 263-276: the package is parsed, the device loop begins
MainConvert ==
    /\ pc = "main" /\ pi <= Len(env.paths)
    /\ Exists(env.paths[pi]) /\ ~ParseRaises(env.paths[pi])
    /\ log' = Append(log, Event("converting", "", ""))
    /\ pc' = "device" /\ di' = 1
    /\ UNCHANGED <<env, pi, oi, fs, call, ret>>

\* the for loop of main is exhausted
MainDone ==
    /\ pc = "main" /\ pi > Len(env.paths)
    /\ pc' = "done"
    /\ UNCHANGED <<env, pi, di, oi, fs, log, call, ret>>

\* lines 279-281
DeviceNotFound ==
    /\ pc = "device" /\ di <= Len(Devices)
    /\ ~HasKey(env.representations, Device)
    /\ log' = Append(log, Event("skip_not_found", Device, ""))
    /\ di' = di + 1
    /\ UNCHANGED <<pc, env, pi, oi, fs, call, ret>>

\* the skip of a device ending the device loop (return for continue)
DeviceNoDisplayType_return ==
    /\ pc = "device" /\ di <= Len(Devices)
    /\ HasKey(env.representations, Device)
    /\ ~Truthy(DisplayType)
    /\ log' = Append(log, Event("skip_no_display_types", Device, ""))
    /\ di' = Len(Devices) + 1
    /\ UNCHANGED <<pc, env, pi, oi, fs, call, ret>>

\* lines 283-287
DeviceNoDisplayType ==
    /\ pc = "device" /\ di <= Len(Devices)
    /\ HasKey(env.representations, Device)
    /\ ~Truthy(DisplayType)
    /\ log' = Append(log, Event("skip_no_display_types", Device, ""))
    /\ di' = di + 1
    /\ UNCHANGED <<pc, env, pi, oi, fs, call, ret>>

\* lines 289-303
DeviceNoOrientations ==
    /\ pc = "device" /\ di <= Len(Devices)
    /\ HasKey(env.representations, Device)
    /\ Truthy(DisplayType)
    /\ CurOrientations = <<>>
    /\ log' = Append(log, Event("skip_no_orientations", Device, ""))
    /\ di' = di + 1
    /\ UNCHANGED <<pc, env, pi, oi, fs, call, ret>>

\* lines 289-310: the output directory is made, the image loop begins
DeviceBegin ==
    /\ pc = "device" /\ di <= Len(Devices)
    /\ HasKey(env.representations, Device)
    /\ Truthy(DisplayType)
    /\ CurOrientations /= <<>>
    /\ fs' = Write(fs, Device, ".")
    /\ log' = Append(log, Event("device", Device, DisplayType))
    /\ pc' = "image" /\ oi' = 1
    /\ UNCHANGED <<env, pi, di, call, ret>>

\* line 349: the device loop is exhausted, convert_deltaskin returns to main
DevicesEnd ==
    /\ pc = "device" /\ di > Len(Devices)
    /\ log' = Append(log, Event("done", "", ""))
    /\ pc' = "main" /\ pi' = pi + 1
    /\ UNCHANGED <<env, di, oi, fs, call, ret>>

HasAsset == AssetName(CurData.assets) /= "" /\ AssetName(CurData.assets) \in env.files

AtImage == pc = "image" /\ oi <= Len(CurOrientations)

\* lines 318-321, 325, 335: no asset, an asset the package does not hold, or
\* an asset that is neither .pdf nor .png
ImageNone ==
    /\ AtImage
    /\ ~HasAsset \/ AssetName(CurData.assets) \notin PdfNames \cup PngNames
    /\ oi' = oi + 1
    /\ UNCHANGED <<pc, env, pi, di, fs, log, call, ret>>

\* lines 335-339
ImageCopyPng ==
    /\ AtImage /\ HasAsset
    /\ AssetName(CurData.assets) \notin PdfNames
    /\ AssetName(CurData.assets) \in PngNames
    /\ fs' = Write(fs, Device, CurOrientation \o ".png")
    /\ log' = Append(log, Event("copied", Device, CurOrientation))
    /\ oi' = oi + 1
    /\ UNCHANGED <<pc, env, pi, di, call, ret>>

AtPdf == AtImage /\ HasAsset /\ AssetName(CurData.assets) \in PdfNames

\* lines 326-332: the rasterizer returns a page, which is saved
ImagePdfSaved ==
    /\ AtPdf /\ Rasterize = "page"
    /\ fs' = Write(fs, Device, CurOrientation \o ".png")
    /\ log' = log \o <<Event("pdf_converting", Device, CurOrientation),
                        Event("saved", Device, CurOrientation)>>
    /\ oi' = oi + 1
    /\ UNCHANGED <<pc, env, pi, di, call, ret>>

\* lines 326-329 with 85: the rasterizer returns no page, nothing is saved
ImagePdfEmpty ==
    /\ AtPdf /\ Rasterize = "empty"
    /\ log' = Append(log, Event("pdf_converting", Device, CurOrientation))
    /\ oi' = oi + 1
    /\ UNCHANGED <<pc, env, pi, di, fs, call, ret>>

\* the rasterizer's exception caught by main only
ImagePdfError_uncaught ==
    /\ AtPdf /\ Rasterize = "raises"
    /\ log' = log \o <<Event("pdf_converting", Device, CurOrientation),
                        Event("error_converting", "", "")>>
    /\ pc' = "main" /\ pi' = pi + 1
    /\ UNCHANGED <<env, di, oi, fs, call, ret>>

\* lines 326-334 with 78-79: the rasterizer is not installed, or the call (or
\* the save) raises; the exception is caught inside the image loop
ImagePdfError ==
    /\ AtPdf /\ Rasterize = "raises"
    /\ log' = log \o <<Event("pdf_converting", Device, CurOrientation),
                        Event("pdf_error", Device, CurOrientation)>>
    /\ oi' = oi + 1
    /\ UNCHANGED <<pc, env, pi, di, fs, call, ret>>

\* lines 341-347: the image loop is exhausted, the config is generated and written
WriteConfig ==
    /\ pc = "image" /\ oi > Len(CurOrientations)
    /\ call' = [fn |-> "generate_overlay_config", orientations |-> CurOrientations,
                portrait_data |-> CurTypeData.portrait,
                landscape_data |-> CurTypeData.landscape]
    /\ ret' = generate_overlay_config(CurOrientations, CurTypeData.portrait,
                                       CurTypeData.landscape)
    /\ fs' = Write(fs, Device, "cfg")
    /\ log' = Append(log, Event("config", Device, ""))
    /\ pc' = "device" /\ di' = di + 1
    /\ UNCHANGED <<env, pi, oi>>

Next ==
    \/ MainNotFound \/ MainConvertRaises \/ MainConvert \/ MainDone
    \/ DeviceNotFound \/ DeviceNoDisplayType \/ DeviceNoOrientations
    \/ DeviceBegin \/ DevicesEnd
    \/ ImageNone \/ ImageCopyPng \/ ImagePdfSaved \/ ImagePdfEmpty \/ ImagePdfError
    \/ WriteConfig

Spec == Init /\ [][Next]_vars

\* The program is one sequential thread that runs until main returns: a step
\* that can be taken is taken.
SpecMain == InitMain /\ [][Next]_vars /\ WF_vars(Next)

-----------------------------------------------------------------------------
(* Properties of the program (Spec) *)

Logged(ev, p, dev, o) ==
    \E i \in DOMAIN log :
        log[i].ev = ev /\ log[i].p = p /\ log[i].dev = dev /\ log[i].o = o

\* the conversion of path number p ran to its "Done!"
Converted(p) == Logged("done", p, "", "")

RequestedDevices == {Devices[i] : i \in DOMAIN Devices}

InSkin(d) == HasKey(env.representations, d)
TypeDataOf(d) ==
    LET dd == Get(env.representations, d)
    IN  Get(dd, get_display_type_preference(dd))
OrientationData(d, o) == IF o = "portrait" THEN TypeDataOf(d).portrait ELSE TypeDataOf(d).landscape

NoDisplayType(d) == Get(env.representations, d) = <<>>
NoOrientationData(d) == \A o \in OrientationNames : ~OrientationData(d, o).present
NoScreenData(data) == data.screens = <<>> /\ data.gameScreenFrame.tag /= "rect"
DeviceNoScreenData(d) ==
    \A o \in OrientationNames : OrientationData(d, o).present => NoScreenData(OrientationData(d, o))

FilesOf(d) == {f \in fs : f.dir = d}

\* the reports name the paths in list order
PathsInOrder == \A i \in 1..(Len(log) - 1) : log[i].p <= log[i + 1].p

\* every path the loop has left behind was attempted: a missing one was
\* reported and not converted, an existing one was handed to
\* convert_deltaskin, which ran to its end unless it raised, and then the
\* exception was reported
PathsBehindReported ==
    \A k \in 1..Len(env.paths) :
        (pi > k) =>
            IF ~Exists(env.paths[k])
            THEN Logged("file_not_found", k, "", "") /\ ~Logged("converting", k, "", "")
            ELSE /\ Logged("converting", k, "", "")
                 /\ IF ParseRaises(env.paths[k])
                    THEN Logged("error_converting", k, "", "") /\ ~Converted(k)
                    ELSE Converted(k)

\* C1: every path of the list is attempted, in list order, whatever became
\* of the earlier ones: a missing path is reported and skipped, an exception
\* of convert_deltaskin is caught and reported, and the loop reaches the end
\* of the list.
C1_EveryPathAttempted ==
    /\ [](PathsInOrder /\ PathsBehindReported)
    /\ <>(pc = "done" /\ pi = Len(env.paths) + 1)

\* a corrupt package first, then a package that was converted to its end
C1_Witness ==
    /\ pc = "done"
    /\ Len(env.paths) = 2
    /\ ParseRaises(env.paths[1])
    /\ Logged("error_converting", 1, "", "")
    /\ Converted(2)
    /\ \E f \in fs : f.name = "cfg"

\* C2 as stated: a requested device without a usable display type, without
\* orientation data or without screen/viewport data gets no directory, no
\* image and no .cfg file.
C2_SkippedWithoutScreenData ==
    \A d \in RequestedDevices :
        (InSkin(d) /\ (NoDisplayType(d) \/ NoOrientationData(d) \/ DeviceNoScreenData(d)))
            => FilesOf(d) = {}

\* C2 amended: a requested device gets no directory, no image and no .cfg
\* file whenever it has no usable display type or no orientation data, and
\* the remaining devices are still processed; a device whose orientations
\* have neither screens nor gameScreenFrame is not skipped: its directory
\* and its .cfg are written, the .cfg without a viewport line.
C2_SkippedWithoutOrientation ==
    /\ \A d \in RequestedDevices :
          IF ~InSkin(d) \/ NoDisplayType(d) \/ NoOrientationData(d)
          THEN FilesOf(d) = {}
          ELSE \A k \in 1..Len(env.paths) :
                  Converted(k) => {File(d, "."), File(d, "cfg")} \subseteq FilesOf(d)
    /\ (log /= <<>> /\ log[Len(log)].ev = "config") =>
          \A b \in BlockIndices(ret) :
              NoScreenData(CallData(BlockOrientation(ret, b)))
                  => BlockLinesOfKind(ret, b, "viewport") = <<>>

\* a device without orientation data was skipped, and a device without any
\* screen data, handled after it, has its .cfg
C2_Witness ==
    /\ pc = "done"
    /\ \E i, j \in DOMAIN log :
          /\ i < j
          /\ log[i].ev \in {"skip_no_orientations", "skip_no_display_types"}
          /\ log[j].ev = "config" /\ log[j].p = log[i].p
          /\ InSkin(log[j].dev) /\ ~NoDisplayType(log[j].dev)
          /\ ~NoOrientationData(log[j].dev) /\ DeviceNoScreenData(log[j].dev)
          /\ File(log[j].dev, "cfg") \in fs
          /\ FilesOf(log[i].dev) = {}

AssetOf(d, o) == AssetName(OrientationData(d, o).assets)

\* the image of orientation o of device d can be produced
ImageExpected(d, o) ==
    /\ OrientationData(d, o).present
    /\ AssetOf(d, o) \in env.files
    /\ \/ AssetOf(d, o) \in PngNames
       \/ /\ AssetOf(d, o) \in PdfNames
          /\ env.rasterizer.installed
          /\ env.rasterizer.outcome[AssetOf(d, o)] = "page"

Processable(d) == InSkin(d) /\ ~NoDisplayType(d) /\ ~NoOrientationData(d)

\* rasterizing the asset of orientation o of device d fails: the asset is a
\* PDF of the package and pdf2image is missing or raises on it
RasterFails(d, o) ==
    /\ Processable(d)
    /\ OrientationData(d, o).present
    /\ AssetOf(d, o) \in env.files \cap PdfNames
    /\ ~env.rasterizer.installed \/ env.rasterizer.outcome[AssetOf(d, o)] = "raises"

\* C3: when rasterizing the PDF of one orientation fails, only the image of
\* that orientation is missing: the failure is reported, the other
\* orientation's image is still produced, the device's .cfg is still
\* written, and the remaining devices of the package are still processed.
C3_RasterFailureIsLocal ==
    \A k \in 1..Len(env.paths) :
        (pi > k /\ Exists(env.paths[k]) /\ ~ParseRaises(env.paths[k])) =>
            \A d \in RequestedDevices : \A o \in OrientationNames :
                RasterFails(d, o) =>
                    /\ Logged("pdf_error", k, d, o)
                    /\ Converted(k)
                    /\ File(d, o \o ".png") \notin fs
                    /\ File(d, "cfg") \in fs
                    /\ \A o2 \in OrientationNames \ {o} :
                          ImageExpected(d, o2) => File(d, o2 \o ".png") \in fs
                    /\ \A d2 \in RequestedDevices :
                          Processable(d2) => File(d2, "cfg") \in fs

\* the portrait PDF failed, the landscape image was written, and another
\* device got its .cfg after the failure
C3_Witness ==
    /\ pc = "done"
    /\ \E i, j \in DOMAIN log :
          /\ i < j
          /\ log[i].ev = "pdf_error" /\ log[i].o = "portrait"
          /\ File(log[i].dev, "landscape.png") \in fs
          /\ File(log[i].dev, "cfg") \in fs
          /\ log[j].ev = "config" /\ log[j].p = log[i].p /\ log[j].dev /= log[i].dev

\* the lines of block b that belong to descriptors
BlockDescriptorPositions(lines, b) ==
    {i \in DOMAIN lines :
        lines[i].ov = b /\ lines[i].k \in {"desc", "reach", "next_target"}}

\* C6: in every config the program produces, an overlay block holds the
\* overlay_next descriptor if and only if the config has more than one
\* overlay block; it is then the last descriptor of its block and its
\* _next_target names the orientation of the other block of the config.
C6_RotateIffTwoBlocks ==
    (call.fn = "generate_overlay_config") =>
        \A b \in BlockIndices(ret) :
            /\ HasRotate(ret, b) <=> Cardinality(BlockIndices(ret)) > 1
            /\ HasRotate(ret, b) =>
                  LET last == Max(BlockDescriptorPositions(ret, b))
                  IN  /\ ret[last].k = "next_target"
                      /\ IsRotate(ret[last - 1]) /\ ret[last - 1].ov = b
                      /\ ret[last].idx = ret[last - 1].idx
                      /\ Len(BlockLinesOfKind(ret, b, "next_target")) = 1
                      /\ ret[last].name /= BlockOrientation(ret, b)
                      /\ ret[last].name \in
                            {BlockOrientation(ret, c) : c \in BlockIndices(ret) \ {b}}

\* a config with two blocks, each ending with its rotate descriptor
C6_Witness ==
    /\ call.fn = "generate_overlay_config"
    /\ BlockIndices(ret) = {0, 1}
    /\ HasRotate(ret, 0) /\ HasRotate(ret, 1)
    /\ BlockLinesOfKind(ret, 0, "next_target")[1].name = "landscape"
    /\ BlockLinesOfKind(ret, 1, "next_target")[1].name = "portrait"
    /\ \E f \in fs : f.name = "cfg"

====
